---------------------------- MODULE Spec2Model ----------------------------
(***************************************************************************)
(* Model of the medical-dictionary ETL utility:                            *)
(*   import_csv.py                 CSV -> PostgreSQL importer              *)
(*   generate_mozc_dict.py         PostgreSQL -> Mozc TSV exporter         *)
(*   generate_mozc_dict_supabase.py  Supabase -> Mozc TSV exporter         *)
(*   db_utils.py / supabase_utils.py  schema, wrapper                      *)
(*                                                                         *)
(* The database is modelled as the committed contents (db) and the working *)
(* contents of the importer's open transaction (tx).  psycopg2 opens a     *)
(* transaction implicitly at the first statement after a commit/rollback;  *)
(* conn.commit() publishes tx, conn.rollback() discards it.  SERIAL        *)
(* sequences are not transactional and are kept outside db/tx.             *)
(*                                                                         *)
(* Strings are TLA+ strings; Len gives the character count that VARCHAR(n) *)
(* limits.  The two part-of-speech names of the source are written in      *)
(* ASCII: "koyuu-meishi" (proper noun) and "futsuu-meishi" (common noun).  *)
(***************************************************************************)
EXTENDS Integers, Sequences, FiniteSets, TLC

VARIABLES
    db,         \* committed tables: [pos_codes, attr_codes, words]
    tx,         \* tables as seen inside the connection's open transaction
    attr_seq,   \* attr_codes_id_seq (SERIAL), last value handed out
    words_seq,  \* words_id_seq (SERIAL), last value handed out
    xid,        \* id (and start timestamp) of the connection's current transaction
    file,       \* the CSV file: a sequence of rows, each a sequence of fields
    idx,        \* enumerate(reader): 1-based number of the next row
    pc,         \* "running" | "done" (committed, returned) | "raised"
    run,        \* which invocation of the importer this is (1 or 2)
    inserted, updated, skipped, errors,   \* import_csv's four counters
    outcome,    \* per row of this run, the counter it was added to
    after1,     \* the words table as left by the first invocation
    erows,      \* exporter: the fetched result rows, in the order returned
    epos,       \* exporter: 1-based position of the next result row
    epc,        \* exporter: "idle" | "loop" | "done" | "raised"
    via,        \* exporter: "sql" | "rpc" | "table", the path that fetched erows
    via1,       \* the path the first export fetched its rows by
    erun,       \* exporter: which export this is (1 or 2)
    generated,  \* exporter: the set `generated`
    out,        \* exporter: the lines written to out_fp, in order
    osrc,       \* exporter: for each line of out, the result row it came from
    count,      \* exporter: the counter `count`
    out1,       \* the lines written by the first export
    rclient,    \* execute_with_retry: "psycopg2" (db_utils), "wrapper" or "supabase" (supabase_utils)
    rmax,       \* execute_with_retry: max_retries
    rattempt,   \* execute_with_retry: attempt, the loop variable
    rpc,        \* execute_with_retry: "idle" | "loop" | "returned" | "raised"
    raborted,   \* the psycopg2 connection is inside a failed transaction
    rresult,    \* execute_with_retry: the value returned
    rerror,     \* execute_with_retry: the attempt whose error was raised, 0 for none
    rlog,       \* execute_with_retry: per attempt made, how it ended
    pfile,      \* two importers: the CSV file of each
    pidx,       \* two importers: number of the next row of each
    ppc,        \* two importers: where each is in the loop body and the resolver
    pend,       \* two importers: the uncommitted writes of each one's transaction
    pxid,       \* two importers: id of each one's current transaction
    pattr,      \* two importers: attr_id resolved for the current row, 0 for none
    pgot,       \* two importers: per row resolved, [name, id] as the resolver returned
    plog        \* two importers: per row of each, the counter it was added to

vars == <<db, tx, attr_seq, words_seq, xid, file, idx, pc, run, inserted,
          updated, skipped, errors, outcome, after1, erows, epos, epc, via,
          via1, erun, generated, out, osrc, count, out1, rclient, rmax,
          rattempt, rpc, raborted, rresult, rerror, rlog, pfile, pidx, ppc,
          pend, pxid, pattr, pgot, plog>>

importVars == <<db, tx, attr_seq, words_seq, xid, file, idx, pc, run, inserted,
                updated, skipped, errors, outcome, after1>>

exportVars == <<erows, epos, epc, via, via1, erun, generated, out, osrc, count, out1>>

retryVars == <<rclient, rmax, rattempt, rpc, raborted, rresult, rerror, rlog>>

raceVars == <<pfile, pidx, ppc, pend, pxid, pattr, pgot, plog>>

auxVars == <<retryVars, raceVars>>

---------------------------------------------------------------------------
(* Bounds of the model *)

MaxRows == 3      \* longest CSV file explored
MaxWords == 3     \* largest words table explored by the exporter

(* Program constants *)

ReadingMax == 255     \* words.reading VARCHAR(255)
WordMax == 255        \* words.word VARCHAR(255)
AttrNameMax == 100    \* attr_codes.name VARCHAR(100)
RowFields == 5        \* fields a CSV row is unpacked into
FirstXid == 3         \* first transaction id PostgreSQL gives a transaction

ProperNoun == "koyuu-meishi"
CommonNoun == "futsuu-meishi"

---------------------------------------------------------------------------
(* Sample strings *)

RECURSIVE Rep(_, _)
Rep(s, n) == IF n = 0 THEN "" ELSE s \o Rep(s, n - 1)

LongReading == Rep("k", ReadingMax + 1)     \* one character too long for words.reading
LongAttr == Rep("a", AttrNameMax + 1)       \* one character too long for attr_codes.name

(* The rows a CSV file of the model is made of *)
SampleRows ==
    { <<"ka", "w1", ProperNoun, "a1", "c1">>,
      <<"ka", "w1", ProperNoun, "a2", "c2">>,
      <<"ka", "w1", CommonNoun, "a1", "c1">>,
      <<"sa", "w2", CommonNoun, "a2", "c1">>,
      <<"sa", "w2", "doushi", "a3", "c1">>,
      <<LongReading, "w1", ProperNoun, "a3", "c1">>,
      <<"ka", "w2", ProperNoun, LongAttr, "c1">>,
      <<"ka", "w1", ProperNoun, "a1">>,
      <<"sa", "w1", ProperNoun, "a1", "c1", "extra">> }

RECURSIVE SeqsUpTo(_, _)
SeqsUpTo(S, n) ==
    IF n = 0 THEN { <<>> }
    ELSE LET shorter == SeqsUpTo(S, n - 1)
         IN  shorter \cup { Append(s, x) : s \in shorter, x \in S }

Files == SeqsUpTo(SampleRows, MaxRows) \ { <<>> }

---------------------------------------------------------------------------
(* Schema: initialize_database *)

(* INSERT INTO pos_codes (name) VALUES (...), (...) ON CONFLICT DO NOTHING *)
SeedPos == { [code |-> 1, name |-> ProperNoun], [code |-> 2, name |-> CommonNoun] }

EmptySchema == [pos_codes |-> SeedPos, attr_codes |-> {}, words |-> {}]

(* A database that has been used before: one more part of speech registered *)
(* by hand, one attribute and one word imported by an earlier transaction.  *)
UsedSchema ==
    [pos_codes  |-> SeedPos \cup { [code |-> 3, name |-> "doushi"] },
     attr_codes |-> { [id |-> 1, name |-> "a1"] },
     words      |-> { [id |-> 1, reading |-> "ka", word |-> "w1", pos_code |-> 1,
                       attr_id |-> 1, collocation |-> "c0",
                       created_at |-> FirstXid, updated_at |-> FirstXid,
                       xmin |-> FirstXid] }]

(* A database a file of the model was imported into before, by another run *)
FilledSchema ==
    [pos_codes  |-> SeedPos,
     attr_codes |-> { [id |-> 1, name |-> "a2"], [id |-> 3, name |-> "a1"] },
     words      |-> { [id |-> 2, reading |-> "ka", word |-> "w1", pos_code |-> 2,
                       attr_id |-> 1, collocation |-> "c2",
                       created_at |-> FirstXid, updated_at |-> FirstXid,
                       xmin |-> FirstXid],
                      [id |-> 5, reading |-> "sa", word |-> "w2", pos_code |-> 2,
                       attr_id |-> 3, collocation |-> "c1",
                       created_at |-> FirstXid, updated_at |-> FirstXid,
                       xmin |-> FirstXid] }]

StartDBs == { EmptySchema, UsedSchema, FilledSchema }

MaxId(S) == IF S = {} THEN 0 ELSE CHOOSE m \in S : \A k \in S : k <= m

(* UNIQUE(reading, word, pos_code) *)
Key(w) == <<w.reading, w.word, w.pos_code>>

(* The columns other than id and the timestamps *)
Content(w) == <<w.reading, w.word, w.pos_code, w.attr_id, w.collocation>>

---------------------------------------------------------------------------
(* The connection: S = [db, tx, attr_seq, words_seq, xid] *)

Commit(S) == [S EXCEPT !.db = S.tx, !.xid = S.xid + 1]

Rollback(S) == [S EXCEPT !.tx = S.db, !.xid = S.xid + 1]

---------------------------------------------------------------------------
(* Reference resolver: import_csv.py, section 1 *)

(* A resolver that registers the unknown part of speech instead of raising *)
CreatePosCode(S, pos_name) ==
    LET hit == { p \in S.tx.pos_codes : p.name = pos_name }
    IN  [raised |-> "none",
         code |-> IF hit # {} THEN (CHOOSE p \in hit : TRUE).code
                  ELSE MaxId({ p.code : p \in S.tx.pos_codes }) + 1]

(* SELECT code FROM pos_codes WHERE name = %s; return row[0] or raise ValueError *)
get_or_create_pos_code(S, pos_name) ==
    LET hit == { p \in S.tx.pos_codes : p.name = pos_name }
    IN  IF hit # {}
        THEN [raised |-> "none", code |-> (CHOOSE p \in hit : TRUE).code]
        ELSE [raised |-> "ValueError", code |-> 0]

(* A lookup that never finds the name *)
SelectAttrMiss(S, attr_name) == {}

(* SELECT id FROM attr_codes WHERE name = %s *)
SelectAttr(S, attr_name) == { a \in S.tx.attr_codes : a.name = attr_name }

(* INSERT INTO attr_codes (name) VALUES (%s) RETURNING id.  The id default   *)
(* (nextval) is computed first and is not given back when the statement      *)
(* fails on the VARCHAR(100) limit or on UNIQUE(name).                       *)
InsertAttr(S, attr_name) ==
    LET id == S.attr_seq + 1
        S1 == [S EXCEPT !.attr_seq = id]
    IN  IF \/ Len(attr_name) > AttrNameMax
           \/ \E a \in S.tx.attr_codes : a.name = attr_name
        THEN [raised |-> "Error", id |-> 0, S |-> S1]
        ELSE [raised |-> "none", id |-> id,
              S |-> [S1 EXCEPT !.tx.attr_codes =
                                   @ \cup { [id |-> id, name |-> attr_name] }]]

(* A resolver that returns the statement's row count instead of the id *)
ReturnedRowCount(ins) == 1

(* cur.fetchone()[0] after the INSERT ... RETURNING id *)
ReturnedId(ins) == ins.id

get_or_create_attr_id(S, attr_name) ==
    LET hit == SelectAttr(S, attr_name)
    IN  IF hit # {}
        THEN [raised |-> "none", id |-> (CHOOSE a \in hit : TRUE).id, S |-> S]
        ELSE LET ins == InsertAttr(S, attr_name)
             IN  IF ins.raised = "none"
                 THEN [raised |-> "none", id |-> ReturnedId(ins), S |-> Commit(ins.S)]
                 ELSE LET R == Rollback(ins.S)
                          again == SelectAttr(R, attr_name)
                      IN  IF again # {}
                          THEN [raised |-> "none",
                                id |-> (CHOOSE a \in again : TRUE).id, S |-> R]
                          ELSE [raised |-> "Error", id |-> 0, S |-> R]

---------------------------------------------------------------------------
(* The upsert of import_csv *)

(* A table without the unique key: every write adds a row *)
NoConflict(S, reading, word, pos_code) == {}

(* Rows of words that conflict with the key on UNIQUE(reading, word, pos_code) *)
Conflicting(S, reading, word, pos_code) ==
    { w \in S.tx.words : Key(w) = <<reading, word, pos_code>> }

(* INSERT INTO words ... ON CONFLICT (reading, word, pos_code) DO UPDATE SET     *)
(* collocation, attr_id, updated_at.  The id default is computed before the      *)
(* conflict is detected; VARCHAR(255) and the two foreign keys are checked.      *)
Upsert(S, reading, word, pos_code, attr_id, collocation) ==
    LET id == S.words_seq + 1
        S1 == [S EXCEPT !.words_seq = id]
        old == Conflicting(S, reading, word, pos_code)
        fresh == [id |-> id, reading |-> reading, word |-> word,
                  pos_code |-> pos_code, attr_id |-> attr_id,
                  collocation |-> collocation, created_at |-> S.xid,
                  updated_at |-> S.xid, xmin |-> S.xid]
        touched == { [w EXCEPT !.collocation = collocation, !.attr_id = attr_id,
                               !.updated_at = S.xid, !.xmin = S.xid] : w \in old }
    IN  IF \/ Len(reading) > ReadingMax
           \/ Len(word) > WordMax
           \/ pos_code \notin { p.code : p \in S.tx.pos_codes }
           \/ attr_id \notin { a.id : a \in S.tx.attr_codes }
        THEN [raised |-> "Error", S |-> S1]
        ELSE IF old = {}
        THEN [raised |-> "none", S |-> [S1 EXCEPT !.tx.words = @ \cup { fresh }]]
        ELSE [raised |-> "none",
              S |-> [S1 EXCEPT !.tx.words = (@ \ old) \cup touched]]

(* SELECT xmin = 0 AS inserted FROM words WHERE reading=%s AND word=%s AND pos_code=%s *)
SelectInserted(S, reading, word, pos_code) ==
    LET w == CHOOSE r \in S.tx.words : Key(r) = <<reading, word, pos_code>>
    IN  w.xmin = 0

(* The body of the per-row try block of import_csv (lines 71-104), for a row *)
(* that was unpacked into five fields.                                       *)
ProcessRow(S, row) ==
    LET reading == row[1]
        word == row[2]
        pos_name == row[3]
        attr_name == row[4]
        collocation == row[5]
        p == get_or_create_pos_code(S, pos_name)
        a == get_or_create_attr_id(S, attr_name)
        u == Upsert(a.S, reading, word, p.code, a.id, collocation)
    IN  IF p.raised = "ValueError" THEN [outcome |-> "skipped", S |-> S]
        ELSE IF a.raised = "Error" THEN [outcome |-> "error", S |-> Rollback(a.S)]
        ELSE IF u.raised = "Error" THEN [outcome |-> "error", S |-> Rollback(u.S)]
        ELSE IF SelectInserted(u.S, reading, word, p.code)
        THEN [outcome |-> "inserted", S |-> u.S]
        ELSE [outcome |-> "updated", S |-> u.S]

---------------------------------------------------------------------------
(* import_csv, one action per way a loop iteration can end *)

Conn == [db |-> db, tx |-> tx, attr_seq |-> attr_seq, words_seq |-> words_seq,
         xid |-> xid]

SetConn(S) ==
    /\ db' = S.db
    /\ tx' = S.tx
    /\ attr_seq' = S.attr_seq
    /\ words_seq' = S.words_seq
    /\ xid' = S.xid

HasRow == pc = "running" /\ idx <= Len(file)

(* len(row) < 5: skipped += 1; continue *)
ImportShortRow ==
    /\ HasRow
    /\ Len(file[idx]) < RowFields
    /\ skipped' = skipped + 1
    /\ outcome' = Append(outcome, "skipped")
    /\ idx' = idx + 1
    /\ UNCHANGED <<db, tx, attr_seq, words_seq, xid, file, pc, run, inserted,
                   updated, errors, after1>>
    /\ UNCHANGED exportVars
    /\ UNCHANGED auxVars

(* reading, word, pos_name, attr_name, collocation = row  with more than five   *)
(* fields raises ValueError outside the per-row try: import_csv closes the      *)
(* cursor and raises, main() closes the connection, the open transaction is     *)
(* lost.                                                                        *)
ImportUnpackRaises ==
    /\ HasRow
    /\ Len(file[idx]) > RowFields
    /\ pc' = "raised"
    /\ SetConn(Rollback(Conn))
    /\ UNCHANGED <<file, idx, run, inserted, updated, skipped, errors, outcome,
                   after1>>
    /\ UNCHANGED exportVars
    /\ UNCHANGED auxVars

(* except ValueError: skipped += 1 *)
ImportUnknownPos ==
    /\ HasRow
    /\ Len(file[idx]) = RowFields
    /\ LET r == ProcessRow(Conn, file[idx])
       IN  /\ r.outcome = "skipped"
           /\ SetConn(r.S)
    /\ skipped' = skipped + 1
    /\ outcome' = Append(outcome, "skipped")
    /\ idx' = idx + 1
    /\ UNCHANGED <<file, pc, run, inserted, updated, errors, after1>>
    /\ UNCHANGED exportVars
    /\ UNCHANGED auxVars

(* except Error: conn.rollback(); errors += 1 *)
ImportRowError ==
    /\ HasRow
    /\ Len(file[idx]) = RowFields
    /\ LET r == ProcessRow(Conn, file[idx])
       IN  /\ r.outcome = "error"
           /\ SetConn(r.S)
    /\ errors' = errors + 1
    /\ outcome' = Append(outcome, "error")
    /\ idx' = idx + 1
    /\ UNCHANGED <<file, pc, run, inserted, updated, skipped, after1>>
    /\ UNCHANGED exportVars
    /\ UNCHANGED auxVars

(* the row was written; inserted += 1 or updated += 1 *)
ImportRowWritten ==
    /\ HasRow
    /\ Len(file[idx]) = RowFields
    /\ LET r == ProcessRow(Conn, file[idx])
       IN  /\ r.outcome \in {"inserted", "updated"}
           /\ SetConn(r.S)
           /\ inserted' = IF r.outcome = "inserted" THEN inserted + 1 ELSE inserted
           /\ updated' = IF r.outcome = "updated" THEN updated + 1 ELSE updated
           /\ outcome' = Append(outcome, r.outcome)
    /\ idx' = idx + 1
    /\ UNCHANGED <<file, pc, run, skipped, errors, after1>>
    /\ UNCHANGED exportVars
    /\ UNCHANGED auxVars

(* after the loop: conn.commit() and the report *)
ImportCommit ==
    /\ pc = "running"
    /\ idx > Len(file)
    /\ SetConn(Commit(Conn))
    /\ pc' = "done"
    /\ UNCHANGED <<file, idx, run, inserted, updated, skipped, errors, outcome,
                   after1>>
    /\ UNCHANGED exportVars
    /\ UNCHANGED auxVars

(* main() is started again on the same file, with a new connection *)
ImportAgain ==
    /\ pc \in {"done", "raised"}
    /\ run = 1
    /\ run' = 2
    /\ after1' = { Content(w) : w \in db.words }
    /\ idx' = 1
    /\ pc' = "running"
    /\ inserted' = 0
    /\ updated' = 0
    /\ skipped' = 0
    /\ errors' = 0
    /\ outcome' = <<>>
    /\ UNCHANGED <<db, tx, attr_seq, words_seq, xid, file>>
    /\ UNCHANGED exportVars
    /\ UNCHANGED auxVars

ExportIdle ==
    /\ erows = <<>>
    /\ epos = 1
    /\ epc = "idle"
    /\ via = "none"
    /\ via1 = "none"
    /\ erun = 1
    /\ generated = {}
    /\ out = <<>>
    /\ osrc = <<>>
    /\ count = 0
    /\ out1 = <<>>

Procs == {1, 2}

NoWrites == [attr_codes |-> {}, words |-> {}]

(* no second importer is running *)
RaceIdle ==
    /\ pfile = [p \in Procs |-> <<>>]
    /\ pidx = [p \in Procs |-> 1]
    /\ ppc = [p \in Procs |-> "done"]
    /\ pend = [p \in Procs |-> NoWrites]
    /\ pxid = [p \in Procs |-> FirstXid]
    /\ pattr = [p \in Procs |-> 0]
    /\ pgot = [p \in Procs |-> <<>>]
    /\ plog = [p \in Procs |-> <<>>]

(* execute_with_retry has no caller in the importer or the exporters *)
RetryIdle ==
    /\ rclient = "psycopg2"
    /\ rmax = 0
    /\ rattempt = 1
    /\ rpc = "idle"
    /\ raborted = FALSE
    /\ rresult = "none"
    /\ rerror = 0
    /\ rlog = <<>>

Init ==
    /\ \E d \in StartDBs :
          /\ db = d
          /\ tx = d
          /\ attr_seq = MaxId({ a.id : a \in d.attr_codes })
          /\ words_seq = MaxId({ w.id : w \in d.words })
    /\ xid = FirstXid + 1
    /\ file \in Files
    /\ idx = 1
    /\ pc = "running"
    /\ run = 1
    /\ inserted = 0
    /\ updated = 0
    /\ skipped = 0
    /\ errors = 0
    /\ outcome = <<>>
    /\ after1 = {}
    /\ ExportIdle
    /\ RetryIdle
    /\ RaceIdle

Next ==
    \/ ImportShortRow
    \/ ImportUnpackRaises
    \/ ImportUnknownPos
    \/ ImportRowError
    \/ ImportRowWritten
    \/ ImportCommit
    \/ ImportAgain

Spec == Init /\ [][Next]_vars

---------------------------------------------------------------------------
(* Dictionary exporter: generate_mozc_dict.py, generate_mozc_dict_supabase.py *)

TabCost == "\t1920\t1920\t4001\t"

(* Sample readings and words of the exporter's tables, in the ascending order *)
(* of the database's collation.  Two of them hold tab characters.            *)
Collation == << "ka", "ka" \o TabCost \o "x", "w", "x" \o TabCost \o "w" >>

ExportReadings == { Collation[1], Collation[2] }
ExportWords == { Collation[3], Collation[4] }

Rank(s) == CHOOSE i \in 1..Len(Collation) : Collation[i] = s

(* a sorts before or with b under ORDER BY reading, word *)
RowLE(a, b) ==
    \/ Rank(a.reading) < Rank(b.reading)
    \/ a.reading = b.reading /\ Rank(a.word) <= Rank(b.word)

(* ... FROM words w JOIN pos_codes p ON p.code = w.pos_code.  A row has the   *)
(* shape of the RPC and SQL result (pos_name) or of the table query with the  *)
(* embedded pos_codes(name); the key a row lacks reads as "".                 *)
Joined(T, shape) ==
    { [reading |-> w.reading, word |-> w.word,
       pos_name |-> IF shape = "table" THEN "" ELSE p.name,
       pos_codes |-> IF shape = "table" THEN p.name ELSE ""] :
         <<w, p>> \in { q \in T.words \X T.pos_codes : q[2].code = q[1].pos_code } }

Arrangements(R) ==
    { s \in [1..Cardinality(R) -> R] : \A i, j \in DOMAIN s : i # j => s[i] # s[j] }

(* A query without its ORDER BY clause *)
Unordered(R) == Arrangements(R)

(* ORDER BY w.reading, w.word: every arrangement of the rows that ascends on  *)
(* (reading, word); rows equal on both may come in either order.              *)
OrderBy(R) ==
    { s \in Arrangements(R) : \A i, j \in DOMAIN s : i < j => RowLE(s[i], s[j]) }

(* row.get('pos_name') or (row.get('pos_codes', {}).get('name', '') if ... else '') *)
PosNameOf(row) == IF row.pos_name # "" THEN row.pos_name ELSE row.pos_codes

(* A mapping without the else branch: every part of speech gets a line *)
MappedAny(pos_name) == TRUE

Mapped(pos_name) == pos_name \in {ProperNoun, CommonNoun}

(* line = f"{reading}\t1920\t1920\t4001\t{word}"  /  f"{reading}\t1851\t1851\t4000\t{word}" *)
Line(row) ==
    IF PosNameOf(row) = ProperNoun
    THEN row.reading \o "\t1920\t1920\t4001\t" \o row.word
    ELSE row.reading \o "\t1851\t1851\t4000\t" \o row.word

(* generated = set(); count = 0, and the output file opened by main() *)
StartExport(rows, path) ==
    /\ erows' = rows
    /\ via' = path
    /\ epos' = 1
    /\ generated' = {}
    /\ out' = <<>>
    /\ osrc' = <<>>
    /\ count' = 0

(* generate_mozc_dict.py: cur.execute(SELECT ... ORDER BY w.reading, w.word) *)
ExportQuerySQL ==
    /\ epc = "idle"
    /\ \E rows \in OrderBy(Joined(db, "sql")) : StartExport(rows, "sql")
    /\ epc' = "loop"
    /\ UNCHANGED <<via1, erun, out1>>
    /\ UNCHANGED importVars
    /\ UNCHANGED auxVars

(* generate_mozc_dict_supabase.py: supabase.rpc('get_words_with_pos').execute(); *)
(* empty data returns at once.  Lines 34 and 38 of the file read `response.`;    *)
(* they are taken to read the response's list of rows.                           *)
ExportQueryRPC ==
    /\ epc = "idle"
    /\ \E rows \in OrderBy(Joined(db, "rpc")) :
          /\ StartExport(rows, "rpc")
          /\ epc' = IF rows = <<>> THEN "done" ELSE "loop"
    /\ UNCHANGED <<via1, erun, out1>>
    /\ UNCHANGED importVars
    /\ UNCHANGED auxVars

(* the RPC raised; supabase.table('words').select(...).order('reading').order('word') *)
ExportQueryTable ==
    /\ epc = "idle"
    /\ \E rows \in OrderBy(Joined(db, "table")) :
          /\ StartExport(rows, "table")
          /\ epc' = IF rows = <<>> THEN "done" ELSE "loop"
    /\ UNCHANGED <<via1, erun, out1>>
    /\ UNCHANGED importVars
    /\ UNCHANGED auxVars

(* the RPC raised and the table query raised too: except Exception: raise *)
ExportFetchRaises ==
    /\ epc = "idle"
    /\ StartExport(<<>>, "table")
    /\ epc' = "raised"
    /\ UNCHANGED <<via1, erun, out1>>
    /\ UNCHANGED importVars
    /\ UNCHANGED auxVars

AtResult == epc = "loop" /\ epos <= Len(erows)

(* A test that never finds the line *)
NeverGenerated(line) == FALSE

(* line in generated *)
InGenerated(line) == line \in generated

(* a mapped part of speech and a line not in generated: print, add, count += 1 *)
ExportWriteLine ==
    /\ AtResult
    /\ Mapped(PosNameOf(erows[epos]))
    /\ ~InGenerated(Line(erows[epos]))
    /\ out' = Append(out, Line(erows[epos]))
    /\ osrc' = Append(osrc, erows[epos])
    /\ generated' = generated \cup { Line(erows[epos]) }
    /\ count' = count + 1
    /\ epos' = epos + 1
    /\ UNCHANGED <<erows, epc, via, via1, erun, out1>>
    /\ UNCHANGED importVars
    /\ UNCHANGED auxVars

(* a mapped part of speech and a line already in generated: nothing is written *)
ExportDuplicateLine ==
    /\ AtResult
    /\ Mapped(PosNameOf(erows[epos]))
    /\ InGenerated(Line(erows[epos]))
    /\ epos' = epos + 1
    /\ UNCHANGED <<erows, epc, via, via1, erun, generated, out, osrc, count, out1>>
    /\ UNCHANGED importVars
    /\ UNCHANGED auxVars

(* any other part of speech: warning, continue *)
ExportSkipRow ==
    /\ AtResult
    /\ ~Mapped(PosNameOf(erows[epos]))
    /\ epos' = epos + 1
    /\ UNCHANGED <<erows, epc, via, via1, erun, generated, out, osrc, count, out1>>
    /\ UNCHANGED importVars
    /\ UNCHANGED auxVars

(* the loop is over: the count is reported *)
ExportFinish ==
    /\ epc = "loop"
    /\ epos > Len(erows)
    /\ epc' = "done"
    /\ UNCHANGED <<erows, epos, via, via1, erun, generated, out, osrc, count, out1>>
    /\ UNCHANGED importVars
    /\ UNCHANGED auxVars

(* an exporter is started again, the tables unchanged *)
ExportAgain ==
    /\ epc = "done"
    /\ erun = 1
    /\ erun' = 2
    /\ out1' = out
    /\ via1' = via
    /\ epc' = "idle"
    /\ UNCHANGED <<erows, epos, via, generated, out, osrc, count>>
    /\ UNCHANGED importVars
    /\ UNCHANGED auxVars

(* Table contents the exporter is run against *)
ExportPos == SeedPos \cup { [code |-> 3, name |-> "doushi"] }

ExportWordRows ==
    { [id |-> 6 * Rank(r) + 3 * Rank(w) + c, reading |-> r, word |-> w, pos_code |-> c, attr_id |-> 1,
       collocation |-> "c1", created_at |-> FirstXid, updated_at |-> FirstXid,
       xmin |-> FirstXid] :
         r \in ExportReadings, w \in ExportWords, c \in { p.code : p \in ExportPos } }

ExportTables ==
    { [pos_codes |-> ExportPos, attr_codes |-> { [id |-> 1, name |-> "a1"] },
       words |-> W] :
         W \in { V \in SUBSET ExportWordRows : Cardinality(V) <= MaxWords } }

InitExport ==
    /\ db \in ExportTables
    /\ tx = db
    /\ attr_seq = 1
    /\ words_seq = 0
    /\ xid = FirstXid + 1
    /\ file = <<>>
    /\ idx = 1
    /\ pc = "done"
    /\ run = 1
    /\ inserted = 0
    /\ updated = 0
    /\ skipped = 0
    /\ errors = 0
    /\ outcome = <<>>
    /\ after1 = {}
    /\ ExportIdle
    /\ RetryIdle
    /\ RaceIdle

NextExport ==
    \/ ExportQuerySQL
    \/ ExportQueryRPC
    \/ ExportQueryTable
    \/ ExportFetchRaises
    \/ ExportWriteLine
    \/ ExportDuplicateLine
    \/ ExportSkipRow
    \/ ExportFinish
    \/ ExportAgain

SpecExport == InitExport /\ [][NextExport]_vars

---------------------------------------------------------------------------
(* Retry wrapper: db_utils.execute_with_retry, supabase_utils.execute_with_retry *)

DefaultRetries == 3       \* max_retries=3
MaxExtraRetries == 2      \* max_retries is tried from 0 to DefaultRetries + MaxExtraRetries

(* What a successful attempt can fetch *)
RowSets == { "rows-a", "rows-b" }

(* The clients whose failed statement leaves a psycopg2 connection inside a   *)
(* failed transaction: the connection of db_utils, and the PostgreSQLWrapper  *)
(* that get_direct_postgres_client hands to the supabase_utils functions.     *)
HoldsConnection(client) == client \in {"psycopg2", "wrapper"}

(* except Error: cur.close(); conn.rollback()  is in db_utils only *)
RollsBack(client) == client = "psycopg2"

(* the connection after the except block of a failed attempt *)
AfterFailure(client) == HoldsConnection(client) /\ ~RollsBack(client)

Attempted(ok, rolledback, rows) == [ok |-> ok, rolledback |-> rolledback, rows |-> rows]

InLoop == rpc = "loop" /\ rattempt <= rmax

(* try: cur.execute(query); rows = cur.fetchall(); return rows                *)
(* try: return supabase.rpc(...).execute().data                               *)
(* A statement on a connection inside a failed transaction cannot succeed.    *)
RetryReturns ==
    /\ InLoop
    /\ ~raborted
    /\ \E rows \in RowSets :
          /\ rresult' = rows
          /\ rlog' = Append(rlog, Attempted(TRUE, FALSE, rows))
    /\ rpc' = "returned"
    /\ UNCHANGED <<rclient, rmax, rattempt, raborted, rerror>>
    /\ UNCHANGED <<importVars, exportVars, raceVars>>

(* except: attempt < max_retries: the failure is printed and the loop goes on *)
RetryFailsAgain ==
    /\ InLoop
    /\ rattempt < rmax
    /\ raborted' = AfterFailure(rclient)
    /\ rlog' = Append(rlog, Attempted(FALSE, RollsBack(rclient), "none"))
    /\ rattempt' = rattempt + 1
    /\ UNCHANGED <<rclient, rmax, rpc, rresult, rerror>>
    /\ UNCHANGED <<importVars, exportVars, raceVars>>

(* except: the last attempt: raise *)
RetryFailsRaise ==
    /\ InLoop
    /\ rattempt = rmax
    /\ raborted' = AfterFailure(rclient)
    /\ rlog' = Append(rlog, Attempted(FALSE, RollsBack(rclient), "none"))
    /\ rerror' = rattempt
    /\ rpc' = "raised"
    /\ UNCHANGED <<rclient, rmax, rattempt, rresult>>
    /\ UNCHANGED <<importVars, exportVars, raceVars>>

(* range(1, max_retries + 1) is exhausted: the function ends and returns None *)
RetryFallsThrough ==
    /\ rpc = "loop"
    /\ rattempt > rmax
    /\ rresult' = "None"
    /\ rpc' = "returned"
    /\ UNCHANGED <<rclient, rmax, rattempt, raborted, rerror, rlog>>
    /\ UNCHANGED <<importVars, exportVars, raceVars>>

InitRetry ==
    /\ db = EmptySchema
    /\ tx = db
    /\ attr_seq = 0
    /\ words_seq = 0
    /\ xid = FirstXid + 1
    /\ file = <<>>
    /\ idx = 1
    /\ pc = "done"
    /\ run = 1
    /\ inserted = 0
    /\ updated = 0
    /\ skipped = 0
    /\ errors = 0
    /\ outcome = <<>>
    /\ after1 = {}
    /\ ExportIdle
    /\ rclient \in {"psycopg2", "wrapper", "supabase"}
    /\ rmax \in 0..(DefaultRetries + MaxExtraRetries)
    /\ rattempt = 1
    /\ rpc = "loop"
    /\ raborted = FALSE
    /\ rresult = "none"
    /\ rerror = 0
    /\ rlog = <<>>
    /\ RaceIdle

NextRetry ==
    \/ RetryReturns
    \/ RetryFailsAgain
    \/ RetryFailsRaise
    \/ RetryFallsThrough

SpecRetry == InitRetry /\ [][NextRetry]_vars

---------------------------------------------------------------------------
(* Two importers on one database, each with its own connection (READ          *)
(* COMMITTED): a statement sees the committed tables and the uncommitted      *)
(* writes of its own transaction.  get_or_create_attr_id is taken statement   *)
(* by statement.                                                              *)

MaxRaceRows == 2      \* longest CSV file of each of the two importers

(* The rows of the two files: the importers write different words and name    *)
(* the same attributes, "a1" being in attr_codes at the start and "a2" not.   *)
RaceRows(p) ==
    LET reading == IF p = 1 THEN "ka" ELSE "sa"
    IN  { <<reading, "w1", ProperNoun, "a1", "c1">>,
          <<reading, "w2", ProperNoun, "a2", "c1">> }

RaceFiles(p) == SeqsUpTo(RaceRows(p), MaxRaceRows) \ { <<>> }

(* The tables as the statements of importer p see them *)
View(p) ==
    [pos_codes  |-> db.pos_codes,
     attr_codes |-> db.attr_codes \cup pend[p].attr_codes,
     words      |-> { w \in db.words : \A v \in pend[p].words : Key(v) # Key(w) }
                        \cup pend[p].words]

ConnOf(p) == [db |-> db, tx |-> View(p), attr_seq |-> attr_seq,
              words_seq |-> words_seq, xid |-> pxid[p]]

(* what a transaction has written and not committed, given what it sees *)
Uncommitted(T) == [attr_codes |-> T.attr_codes \ db.attr_codes,
                   words |-> T.words \ db.words]

RaceRow(p) == pfile[p][pidx[p]]

(* conn.commit() of importer p *)
RaceCommit(p) ==
    /\ db' = View(p)
    /\ pend' = [pend EXCEPT ![p] = NoWrites]
    /\ xid' = xid + 1
    /\ pxid' = [pxid EXCEPT ![p] = xid + 1]

(* conn.rollback() of importer p *)
RaceDiscard(p) ==
    /\ pend' = [pend EXCEPT ![p] = NoWrites]
    /\ xid' = xid + 1
    /\ pxid' = [pxid EXCEPT ![p] = xid + 1]
    /\ UNCHANGED db

Resolved(p, id) ==
    /\ pattr' = [pattr EXCEPT ![p] = id]
    /\ pgot' = [pgot EXCEPT ![p] = Append(@, [name |-> RaceRow(p)[4], id |-> id])]
    /\ ppc' = [ppc EXCEPT ![p] = "upsert"]

RaceFrame == UNCHANGED <<tx, file, idx, pc, run, inserted, updated, skipped,
                         errors, outcome, after1, exportVars, retryVars, pfile>>

(* lines 72, 34-37: the part of speech is found; SELECT id FROM attr_codes *)
RaceSelect(p) ==
    /\ ppc[p] = "select"
    /\ pidx[p] <= Len(pfile[p])
    /\ get_or_create_pos_code(ConnOf(p), RaceRow(p)[3]).raised = "none"
    /\ LET hit == SelectAttr(ConnOf(p), RaceRow(p)[4])
       IN  IF hit # {}
           THEN Resolved(p, (CHOOSE a \in hit : TRUE).id)
           ELSE /\ ppc' = [ppc EXCEPT ![p] = "insert"]
                /\ UNCHANGED <<pattr, pgot>>
    /\ UNCHANGED <<db, attr_seq, words_seq, xid, pidx, pend, pxid, plog>>
    /\ RaceFrame

(* lines 40-42: INSERT INTO attr_codes.  The unique index makes the statement *)
(* wait while another transaction holds an uncommitted row of the same name.  *)
RaceInsert(p) ==
    /\ ppc[p] = "insert"
    /\ \A q \in Procs \ {p} : \A a \in pend[q].attr_codes : a.name # RaceRow(p)[4]
    /\ LET ins == InsertAttr(ConnOf(p), RaceRow(p)[4])
       IN  /\ attr_seq' = ins.S.attr_seq
           /\ IF ins.raised = "none"
              THEN /\ pend' = [pend EXCEPT ![p] = Uncommitted(ins.S.tx)]
                   /\ pattr' = [pattr EXCEPT ![p] = ReturnedId(ins)]
                   /\ ppc' = [ppc EXCEPT ![p] = "commit"]
              ELSE /\ ppc' = [ppc EXCEPT ![p] = "except"]
                   /\ UNCHANGED <<pend, pattr>>
    /\ UNCHANGED <<db, words_seq, xid, pidx, pxid, pgot, plog>>
    /\ RaceFrame

(* lines 43-44: conn.commit(); return cur.fetchone()[0] *)
RaceCommitAttr(p) ==
    /\ ppc[p] = "commit"
    /\ RaceCommit(p)
    /\ Resolved(p, pattr[p])
    /\ UNCHANGED <<attr_seq, words_seq, pidx, plog>>
    /\ RaceFrame

(* lines 45-46: except Error: conn.rollback() *)
RaceRollback(p) ==
    /\ ppc[p] = "except"
    /\ RaceDiscard(p)
    /\ ppc' = [ppc EXCEPT ![p] = "reselect"]
    /\ UNCHANGED <<attr_seq, words_seq, pidx, pattr, pgot, plog>>
    /\ RaceFrame

(* lines 48-52: the SELECT again; return row[0], or raise to import_csv,      *)
(* which rolls back and counts the row as error (lines 101-104)               *)
RaceReselect(p) ==
    /\ ppc[p] = "reselect"
    /\ LET hit == SelectAttr(ConnOf(p), RaceRow(p)[4])
       IN  IF hit # {}
           THEN /\ Resolved(p, (CHOOSE a \in hit : TRUE).id)
                /\ UNCHANGED <<db, xid, pidx, pend, pxid, plog>>
           ELSE /\ RaceDiscard(p)
                /\ plog' = [plog EXCEPT ![p] = Append(@, "error")]
                /\ pidx' = [pidx EXCEPT ![p] = @ + 1]
                /\ ppc' = [ppc EXCEPT ![p] = "select"]
                /\ UNCHANGED <<pattr, pgot>>
    /\ UNCHANGED <<attr_seq, words_seq>>
    /\ RaceFrame

(* lines 75-96: the upsert of the word and its classification *)
RaceUpsert(p) ==
    /\ ppc[p] = "upsert"
    /\ \A q \in Procs \ {p} : \A w \in pend[q].words :
          <<w.reading, w.word>> # <<RaceRow(p)[1], RaceRow(p)[2]>>
    /\ LET row == RaceRow(p)
           code == get_or_create_pos_code(ConnOf(p), row[3]).code
           u == Upsert(ConnOf(p), row[1], row[2], code, pattr[p], row[5])
       IN  /\ words_seq' = u.S.words_seq
           /\ IF u.raised = "none"
              THEN /\ pend' = [pend EXCEPT ![p] = Uncommitted(u.S.tx)]
                   /\ plog' = [plog EXCEPT ![p] = Append(@,
                                  IF SelectInserted(u.S, row[1], row[2], code)
                                  THEN "inserted" ELSE "updated")]
                   /\ UNCHANGED <<db, xid, pxid>>
              ELSE /\ RaceDiscard(p)
                   /\ plog' = [plog EXCEPT ![p] = Append(@, "error")]
    /\ pidx' = [pidx EXCEPT ![p] = @ + 1]
    /\ ppc' = [ppc EXCEPT ![p] = "select"]
    /\ pattr' = [pattr EXCEPT ![p] = 0]
    /\ UNCHANGED <<attr_seq, pgot>>
    /\ RaceFrame

(* line 106: conn.commit() after the last row *)
RaceFinalCommit(p) ==
    /\ ppc[p] = "select"
    /\ pidx[p] > Len(pfile[p])
    /\ RaceCommit(p)
    /\ ppc' = [ppc EXCEPT ![p] = "done"]
    /\ UNCHANGED <<attr_seq, words_seq, pidx, pattr, pgot, plog>>
    /\ RaceFrame

InitRace ==
    /\ db = UsedSchema
    /\ tx = db
    /\ attr_seq = MaxId({ a.id : a \in db.attr_codes })
    /\ words_seq = MaxId({ w.id : w \in db.words })
    /\ xid = FirstXid + 2
    /\ file = <<>>
    /\ idx = 1
    /\ pc = "done"
    /\ run = 1
    /\ inserted = 0
    /\ updated = 0
    /\ skipped = 0
    /\ errors = 0
    /\ outcome = <<>>
    /\ after1 = {}
    /\ ExportIdle
    /\ RetryIdle
    /\ pfile \in [Procs -> UNION { RaceFiles(p) : p \in Procs }]
    /\ \A p \in Procs : pfile[p] \in RaceFiles(p)
    /\ pidx = [p \in Procs |-> 1]
    /\ ppc = [p \in Procs |-> "select"]
    /\ pend = [p \in Procs |-> NoWrites]
    /\ pxid = [p \in Procs |-> FirstXid + p]
    /\ pattr = [p \in Procs |-> 0]
    /\ pgot = [p \in Procs |-> <<>>]
    /\ plog = [p \in Procs |-> <<>>]

NextRace ==
    \/ \E p \in Procs : RaceSelect(p)
    \/ \E p \in Procs : RaceInsert(p)
    \/ \E p \in Procs : RaceCommitAttr(p)
    \/ \E p \in Procs : RaceRollback(p)
    \/ \E p \in Procs : RaceReselect(p)
    \/ \E p \in Procs : RaceUpsert(p)
    \/ \E p \in Procs : RaceFinalCommit(p)

SpecRace == InitRace /\ [][NextRace]_vars

---------------------------------------------------------------------------
(* Properties of the importer *)

Written == {"inserted", "updated"}

(* The step about to be taken unpacks a five-field row *)
AtRow == pc = "running" /\ idx <= Len(file) /\ Len(file[idx]) = RowFields

(* The names of the part-of-speech and attribute tables inside the transaction *)
PosNames == { p.name : p \in tx.pos_codes }
AttrNames == { a.name : a \in tx.attr_codes }

(* The step just taken appended this outcome for row idx *)
Ended(o) == outcome' = Append(outcome, o)

(* The key the row at idx is written under (its part of speech is known) *)
RowKey == <<file[idx][1], file[idx][2],
            (CHOOSE p \in tx.pos_codes : p.name = file[idx][3]).code>>

WordsContent == { Content(w) : w \in db.words }

(* C1: running the importer a second time on the same file leaves the words   *)
(* table with the same (reading, word, pos_code, attr_id, collocation) rows   *)
(* as the first run left.                                                      *)
C1_ImportTwiceSameWords ==
    (run = 2 /\ pc \in {"done", "raised"}) => WordsContent = after1

C1_Witness ==
    /\ run = 2
    /\ pc = "done"
    /\ updated >= 2
    /\ after1 # {}
    /\ after1 # { Content(w) : w \in UsedSchema.words }

(* C2: a written row is counted as inserted exactly when no words row with    *)
(* its (reading, word, pos_code) key existed before the write, and as updated *)
(* otherwise.                                                                  *)
C2_InsertedIffNew ==
    [][ (AtRow /\ (Ended("inserted") \/ Ended("updated"))) =>
          LET existed == \E w \in tx.words : Key(w) = RowKey
          IN  /\ ~existed => (inserted' = inserted + 1 /\ updated' = updated)
              /\ existed => (updated' = updated + 1 /\ inserted' = inserted) ]_vars

(* C3: no two words rows share (reading, word, pos_code), in the committed    *)
(* table and inside the transaction; a write whose key already exists keeps   *)
(* every row's id, key and created_at, and leaves every other row as it was.  *)
UniqueKey(T) == \A a, b \in T.words : Key(a) = Key(b) => a = b

UpdateFrame ==
    (AtRow /\ (Ended("inserted") \/ Ended("updated"))
           /\ (\E w \in tx.words : Key(w) = RowKey)) =>
        /\ Cardinality(tx'.words) = Cardinality(tx.words)
        /\ \A w \in tx.words :
              \E v \in tx'.words :
                  /\ v.id = w.id
                  /\ Key(v) = Key(w)
                  /\ v.created_at = w.created_at
                  /\ Key(w) # RowKey => v = w
                  /\ Key(w) = RowKey =>
                        /\ v.collocation = file[idx][5]
                        /\ v.updated_at >= w.updated_at

C3_UniqueKey ==
    /\ [](UniqueKey(db) /\ UniqueKey(tx))
    /\ [][UpdateFrame]_vars

C3_Witness ==
    /\ pc = "done"
    /\ Cardinality(db.words) >= 2
    /\ \E w \in db.words : w.updated_at > w.created_at /\ w.collocation = "c2"

(* C4: a five-field row whose pos_name is not in pos_codes is counted as      *)
(* skipped, changes no table, and the loop goes on to the next row.           *)
C4_UnknownPosSkipped ==
    [][ (AtRow /\ file[idx][3] \notin PosNames) =>
          /\ skipped' = skipped + 1
          /\ Ended("skipped")
          /\ inserted' = inserted /\ updated' = updated /\ errors' = errors
          /\ db' = db
          /\ tx' = tx
          /\ pc' = "running"
          /\ idx' = idx + 1 ]_vars

C4_Witness ==
    /\ pc = "done"
    /\ Len(outcome) >= 2
    /\ Len(file[1]) = RowFields
    /\ file[1][3] \notin { p.name : p \in db.pos_codes }
    /\ outcome[1] = "skipped"
    /\ outcome[2] = "updated"
    /\ db.words # {}

(* C5 as stated: the first row carrying an attr_name not yet in attr_codes    *)
(* adds exactly one attr_codes row for that name.                             *)
AddsOne(name) ==
    /\ Cardinality({ a \in tx'.attr_codes : a.name = name }) = 1
    /\ Cardinality(tx'.attr_codes) = Cardinality(tx.attr_codes) + 1
    /\ tx.attr_codes \subseteq tx'.attr_codes
    /\ db'.attr_codes = tx'.attr_codes

C5_Original ==
    [][ (AtRow /\ file[idx][3] \in PosNames /\ file[idx][4] \notin AttrNames) =>
          AddsOne(file[idx][4]) ]_vars

(* C5, amended: a row that reaches attribute resolution with an attr_name not *)
(* yet in attr_codes and of at most 100 characters adds exactly one           *)
(* attr_codes row for that name; a row whose attr_name is already there adds  *)
(* none and, when its word is written, the word carries the id of that one    *)
(* row; attr_codes never holds two rows with the same name.                   *)
AttrNamesUnique(T) == \A a, b \in T.attr_codes : a.name = b.name => a = b

ReusesId(name) ==
    /\ tx'.attr_codes = tx.attr_codes
    /\ db'.attr_codes = db.attr_codes
    /\ (Len(file[idx][1]) <= ReadingMax /\ Len(file[idx][2]) <= WordMax) =>
          /\ Ended("inserted") \/ Ended("updated")
          /\ \E w \in tx'.words :
                /\ Key(w) = RowKey
                /\ \A a \in tx.attr_codes : a.name = name => w.attr_id = a.id

C5_AttrAutoCreate ==
    /\ [](AttrNamesUnique(db) /\ AttrNamesUnique(tx))
    /\ [][ (AtRow /\ file[idx][3] \in PosNames) =>
             /\ (file[idx][4] \notin AttrNames /\ Len(file[idx][4]) <= AttrNameMax)
                    => AddsOne(file[idx][4])
             /\ file[idx][4] \in AttrNames => ReusesId(file[idx][4]) ]_vars

C5_Witness ==
    /\ pc = "done"
    /\ run = 1
    /\ Len(file) >= 2
    /\ outcome[1] = "updated" /\ outcome[2] = "updated"
    /\ file[1][4] = "a2" /\ file[2][4] = "a2"
    /\ file[1][1] # file[2][1]
    /\ Cardinality({ a \in db.attr_codes : a.name = "a2" }) = 1
    /\ Cardinality({ w \in db.words :
                       \E a \in db.attr_codes : a.name = "a2" /\ w.attr_id = a.id }) = 2

(* C6: when import_csv has committed, the words table holds a row for every   *)
(* row of the file that was counted as inserted or updated.                   *)
C6_CountedRowsCommitted ==
    pc = "done" =>
        \A i \in 1..Len(outcome) :
            outcome[i] \in Written =>
                \E w \in db.words :
                    /\ w.reading = file[i][1]
                    /\ w.word = file[i][2]
                    /\ \E p \in db.pos_codes : p.code = w.pos_code /\ p.name = file[i][3]

(* C7: a row counted as error leaves nothing of its own in the committed      *)
(* database: no attr_codes row and no words row.                              *)
C7_ErrorRowLeavesNothing ==
    [][ (AtRow /\ Ended("error")) =>
          /\ { a \in db'.attr_codes : a.name = file[idx][4] }
                = { a \in db.attr_codes : a.name = file[idx][4] }
          /\ \A w \in db'.words \ tx.words : w.reading # file[idx][1] ]_vars

(* C8: import_csv never raises, whatever the rows, and each row read adds one *)
(* to exactly one of the four counters.                                       *)
C8_EveryRowCounted ==
    /\ pc # "raised"
    /\ inserted + updated + skipped + errors = idx - 1
    /\ Len(outcome) = idx - 1

---------------------------------------------------------------------------
(* Properties of the exporter *)

(* C9: two exports of the same unchanged tables by the same exporter write    *)
(* the same sequence of lines.                                                *)
SameExporter == (via1 = "sql") <=> (via = "sql")

C9_ExportDeterministic ==
    (erun = 2 /\ epc = "done" /\ SameExporter) => out = out1

(* C10: the lines written appear in ascending (reading, word) order of the    *)
(* word rows they come from, whichever way the rows were fetched.             *)
C10_LinesAscending ==
    /\ Len(osrc) = Len(out)
    /\ \A i \in 1..Len(out) : out[i] = Line(osrc[i])
    /\ \A i, j \in 1..Len(out) : i < j => RowLE(osrc[i], osrc[j])

C10_Witness ==
    /\ erun = 2
    /\ epc = "done"
    /\ via1 = "sql"
    /\ via = "table"
    /\ Len(out) = 3
    /\ out1 = out
    /\ osrc[1].reading # osrc[3].reading
    /\ osrc[1].word # osrc[2].word

(* C11: no line is written twice; when several result rows map to the same    *)
(* line one copy is written; the count reported is the number of distinct      *)
(* lines written.                                                              *)
LinesOf(sq) == { sq[i] : i \in 1..Len(sq) }

C11_NoDuplicateLines ==
    /\ \A i, j \in 1..Len(out) : i # j => out[i] # out[j]
    /\ count = Cardinality(LinesOf(out))
    /\ epc = "done" =>
          \A k \in 1..Len(erows) :
              (PosNameOf(erows[k]) \in {ProperNoun, CommonNoun}) =>
                  Cardinality({ i \in 1..Len(out) : out[i] = Line(erows[k]) }) = 1

C11_Witness ==
    /\ epc = "done"
    /\ Len(erows) = 3
    /\ \E k, m \in 1..Len(erows) :
          /\ k < m
          /\ erows[k] # erows[m]
          /\ PosNameOf(erows[k]) = ProperNoun
          /\ PosNameOf(erows[m]) = ProperNoun
          /\ Line(erows[k]) = Line(erows[m])
    /\ count = 2
    /\ Len(out) = 2

(* C12: a result row gets a line exactly when its part-of-speech name is one  *)
(* of the two fixed names, with 1920/1920/4001 for the proper noun and         *)
(* 1851/1851/4000 for the common noun; any other row writes nothing, is not    *)
(* counted, and the loop goes on to the next row.                              *)
Expected(row) ==
    IF PosNameOf(row) = ProperNoun
    THEN row.reading \o "\t" \o "1920" \o "\t" \o "1920" \o "\t" \o "4001" \o "\t" \o row.word
    ELSE row.reading \o "\t" \o "1851" \o "\t" \o "1851" \o "\t" \o "4000" \o "\t" \o row.word

RowStep ==
    AtResult =>
        LET row == erows[epos]
            fixed == PosNameOf(row) \in {ProperNoun, CommonNoun}
        IN  /\ (fixed /\ Expected(row) \notin generated) =>
                  /\ out' = Append(out, Expected(row))
                  /\ count' = count + 1
            /\ (fixed /\ Expected(row) \in generated) =>
                  /\ out' = out
                  /\ count' = count
            /\ fixed => Expected(row) \in LinesOf(out')
            /\ ~fixed =>
                  /\ out' = out
                  /\ count' = count
                  /\ generated' = generated
            /\ epc' = "loop"
            /\ epos' = epos + 1

C12_LineIffMapped ==
    /\ [](\A i \in 1..Len(out) :
             /\ PosNameOf(osrc[i]) \in {ProperNoun, CommonNoun}
             /\ out[i] = Expected(osrc[i]))
    /\ [][RowStep]_vars

C12_Witness ==
    /\ epc = "done"
    /\ Len(erows) = 3
    /\ PosNameOf(erows[1]) = "doushi"
    /\ PosNameOf(erows[2]) = ProperNoun
    /\ PosNameOf(erows[3]) = CommonNoun
    /\ out = << Expected(erows[2]), Expected(erows[3]) >>
    /\ count = 2

---------------------------------------------------------------------------
(* Properties of the retry wrapper *)

(* C13: the query is run at most max_retries times; the call stops at the     *)
(* first success and returns that attempt's rows; every failed attempt on a   *)
(* client that holds a connection is followed by a rollback, so no attempt    *)
(* starts inside a failed transaction; when the last allowed attempt fails    *)
(* its error is raised; the call never returns without a successful attempt.  *)
C13_RetryContract ==
    /\ Len(rlog) <= rmax
    /\ \A i \in 1..Len(rlog) :
          /\ rlog[i].ok => i = Len(rlog) /\ rpc = "returned"
          /\ (~rlog[i].ok /\ HoldsConnection(rclient)) => rlog[i].rolledback
    /\ InLoop => ~raborted
    /\ rpc = "returned" =>
          /\ Len(rlog) >= 1
          /\ rlog[Len(rlog)].ok
          /\ rresult = rlog[Len(rlog)].rows
    /\ rpc = "raised" =>
          /\ Len(rlog) = rmax
          /\ ~rlog[Len(rlog)].ok
          /\ rerror = rmax

---------------------------------------------------------------------------
(* Properties of two importers racing on one attr_name *)

(* every id the resolver returned for a name is the id of the one attr_codes  *)
(* row of that name                                                           *)
OneRowPerName ==
    \A p \in Procs : \A i \in 1..Len(pgot[p]) :
        /\ \A q \in Procs : \A j \in 1..Len(pgot[q]) :
              pgot[q][j].name = pgot[p][i].name => pgot[q][j].id = pgot[p][i].id
        /\ { a \in db.attr_codes : a.name = pgot[p][i].name }
              = { [id |-> pgot[p][i].id, name |-> pgot[p][i].name] }

(* the resolver never lets the uniqueness violation out: no row ends as error *)
NeverRaises == \A p \in Procs : \A i \in 1..Len(plog[p]) : plog[p][i] # "error"

(* the rollback after the failed INSERT keeps the words the importer wrote    *)
(* for its earlier rows                                                       *)
LoserKeepsWords ==
    \A p \in Procs :
        (ppc[p] = "except" /\ ppc'[p] = "reselect") =>
            pend[p].words \subseteq View(p)'.words

(* C14: when two importers resolve the same new attr_name at the same time,   *)
(* both get the id of the same single attr_codes row, neither raises the      *)
(* uniqueness violation, and the loser's rollback and re-read does not undo   *)
(* the word writes of the loser's earlier rows.                               *)
C14_RaceOnAttrName ==
    /\ [](OneRowPerName /\ NeverRaises)
    /\ [][LoserKeepsWords]_vars

====
